---- MODULE Spec2Model ----
(***************************************************************************)
(* Model of the system-monitor program (src/src/main.rs, src/src/lib.rs):  *)
(* the terminal lifecycle of main, the render loop run_app, the layout and *)
(* the gauges computed by ui, and the sampler App.                         *)
(***************************************************************************)
EXTENDS Integers, Sequences, FiniteSets, TLC

VARIABLES
    mpc,          \* position of main
    lpc,          \* position of run_app's loop
    rawMode,      \* terminal raw mode is enabled
    altScreen,    \* the alternate screen is active
    result,       \* what run_app returned: "none", "ok", "err"
    exit,         \* how main ended: "none", "ok", "err", "panic"
    failedAt,     \* the step whose error main reports, "none" if none
    lastEvent,    \* the event the last event::read() returned
    area,         \* f.size() of the last frame handed to ui
    chunks,       \* the layout ui computed last, <<>> before the first
    cpuPercent,   \* percent handed to the CPU gauge in the last call of ui
    memPercent,   \* percent handed to the memory gauge in the last call of ui
    cpuReading,   \* what app.get_cpu_usage() returned last
    memReading,   \* what app.get_memory_usage() returned last
    memReads,     \* calls of App::get_memory_usage made so far
    memEpoch,     \* the number of App::update calls made before the last of them
    system,       \* App.system: the provider values as of the last refresh
    draws,        \* frames drawn
    updates,      \* calls of App::update made so far
    sleeps,       \* inter-tick pauses made by the loop
    disables,     \* successful disable_raw_mode calls
    leaves        \* successful LeaveAlternateScreen commands

vars == <<mpc, lpc, rawMode, altScreen, result, exit, failedAt,
          lastEvent, area, chunks, cpuPercent, memPercent, cpuReading,
          memReading, memReads, memEpoch, system,
          draws, updates, sleeps, disables, leaves>>

----------------------------------------------------------------------------
(* Bounds of the model *)

MaxTicks == 2
MaxH == 6
MaxReads == 3

(* Program constants *)

U16Max == 65535
TitleLength == 2
RatioNum == 1
RatioDen == 2

Min(a, b) == IF a < b THEN a ELSE b

----------------------------------------------------------------------------
(* 16-bit cell arithmetic *)

\* u16::saturating_add, as used by Rect::bottom
SatAdd16(a, b) == Min(a + b, U16Max)

\* u16 subtraction with wrap-around (a release build; a debug build panics)
WrapSub16(a, b) == (a - b + (U16Max + 1)) % (U16Max + 1)

\* floor(a * b / c) for 0 <= a, b <= 65535 and c > 0, computed without leaving
\* 32-bit integers: with b = q*c + r and a = 256*ah + al,
\* a*b/c = a*q + (256*ah*r + al*r)/c
MulDiv(a, b, c) ==
    IF a <= 256 \/ b <= 256
    THEN (a * b) \div c
    ELSE LET q == b \div c
             r == b % c
             ah == a \div 256
             al == a % 256
             t == ah * r
             tq == t \div c
             tr == t % c
         IN  a * q + 256 * tq + ((256 * tr + al * r) \div c)

\* largest n in lo..hi with n * n <= v  (lo * lo <= v is given)
RECURSIVE ISqrt(_, _, _)
ISqrt(v, lo, hi) ==
    IF lo >= hi THEN lo
    ELSE LET mid == (lo + hi + 1) \div 2
         IN  IF mid * mid <= v THEN ISqrt(v, mid, hi) ELSE ISqrt(v, lo, mid - 1)

----------------------------------------------------------------------------
(* Rect and Layout of the tui library, as main.rs uses them *)

Rect(x, y, w, h) == [x |-> x, y |-> y, width |-> w, height |-> h]

\* w * h > 65535, without multiplying
AreaExceeds(w, h) == w > 0 /\ h > U16Max \div w

\* Rect::new(0, 0, width, height): a rectangle of more than 65535 cells is
\* shrunk, keeping its aspect ratio w/h, to one of at most 65535 cells:
\* height = sqrt(65535 / (w/h)) and width = height * (w/h), each cut to a u16
\* (computed here exactly; the library's f64 arithmetic can differ by one cell
\* where the exact value is a whole number)
RectNew(w, h) ==
    IF AreaExceeds(w, h)
    THEN Rect(0, 0, ISqrt(MulDiv(U16Max, w, h), 0, 46340),
                    ISqrt(MulDiv(U16Max, h, w), 0, 46340))
    ELSE Rect(0, 0, w, h)

\* Rect::bottom and Rect::right
Bottom(r) == SatAdd16(r.y, r.height)
Right(r) == SatAdd16(r.x, r.width)

\* .direction(Direction::Vertical)
DirectionHorizontal == "Horizontal"
Direction == "Vertical"

\* .constraints([Length(2), Ratio(1, 2), Ratio(1, 2)])
Constraints ==
    << [kind |-> "Length", v |-> TitleLength, n |-> 0, d |-> 1],
       [kind |-> "Ratio", v |-> 0, n |-> RatioNum, d |-> RatioDen],
       [kind |-> "Ratio", v |-> 0, n |-> RatioNum, d |-> RatioDen] >>

\* The size a constraint asks for along an axis of length L, in half cells:
\* Length(v) asks for v, Ratio(n, d) for L * n / d (of the whole axis, not of
\* what the constraints before it leave)
Desired2(c, L) ==
    IF c.kind = "Length" THEN 2 * c.v ELSE (2 * L * c.n) \div c.d

\* What the solver grants a constraint: all constraints have the same (weak)
\* strength and are added in order, so each gets what it asks for as far as the
\* space the earlier ones left allows
GrantedUnclamped2(want2, left2) == want2
Granted2(want2, left2) == Min(want2, left2)

\* Sizes of the elements in half cells; the last element is required to end
\* at the end of the area (expand_to_fill) and so takes what is left
RECURSIVE Solve2(_, _, _)
Solve2(cs, L, left2) ==
    IF cs = <<>> THEN <<>>
    ELSE IF Len(cs) = 1 THEN <<left2>>
    ELSE LET g == Granted2(Desired2(Head(cs), L), left2)
         IN  <<g>> \o Solve2(Tail(cs), L, left2 - g)

\* Start of element i in half cells: the elements are adjacent
RECURSIVE Start2(_, _, _)
Start2(sizes2, i, from2) ==
    IF i = 1 THEN from2 ELSE Start2(sizes2, i - 1, from2) + sizes2[i - 1]

\* `value as u16` of a solver value given in half cells: the fraction is cut
\* and the result saturates
ToU16(v2) == Min(v2 \div 2, U16Max)

\* The size of the last element after the solver: it is extended to the end of
\* the area, last.height = dest_area.bottom() - last.y
LastSizeSolved(endOfArea, start, solved2) == ToU16(solved2)
LastSize(endOfArea, start, solved2) == WrapSub16(endOfArea, start)

\* Layout::split(area) for Direction and Constraints
Split(a) ==
    LET vertical == Direction = "Vertical"
        L == IF vertical THEN a.height ELSE a.width
        from == IF vertical THEN a.y ELSE a.x
        to == IF vertical THEN Bottom(a) ELSE Right(a)
        sizes2 == Solve2(Constraints, L, 2 * L)
        n == Len(Constraints)
        start(i) == ToU16(Start2(sizes2, i, 2 * from))
        size(i) == IF i = n THEN LastSize(to, start(i), sizes2[i])
                   ELSE ToU16(sizes2[i])
    IN  [i \in 1..n |->
            IF vertical
            THEN Rect(a.x, start(i), a.width, size(i))
            ELSE Rect(start(i), a.y, size(i), a.height)]

----------------------------------------------------------------------------
(* The sampler: App of lib.rs over the metrics provider *)

\* Sum of a sequence of per-core values: .map(|cpu| cpu.cpu_usage()).sum()
RECURSIVE SumSeq(_)
SumSeq(q) == IF q = <<>> THEN 0 ELSE Head(q) + SumSeq(Tail(q))

\* A reading is the f32 value num / (den * 2^exp), kept as a quotient: den = 0
\* stands for the float a division by zero gives (NaN for 0/0, infinity
\* otherwise). exp is not 0 only for values too small (exp > 0, below 2^-6) or
\* too large (exp < 0, from 2^29) for the quotient of two 31-bit integers.
Reading(num, den) == [num |-> num, den |-> den, exp |-> 0]

\* The power of two in which an f32 counts a value n >= 2^24: its 24-bit
\* significand holds n / unit
RECURSIVE F32Unit(_, _)
F32Unit(n, unit) ==
    IF n \div unit < 16777216 THEN unit ELSE F32Unit(n, 2 * unit)

\* `n as f32` of a non-negative integer: exact below 2^24, above it rounded
\* to the nearest value with a 24-bit significand, ties to the even one
ToF32(n) ==
    IF n < 16777216 THEN n
    ELSE LET unit == F32Unit(n, 2)
             q == n \div unit
             r == n % unit
             up == r * 2 > unit \/ (r * 2 = unit /\ q % 2 = 1)
         IN  IF up THEN (q + 1) * unit ELSE q * unit

\* System::refresh_all: CPU and memory are read from the provider
RefreshAll(sys, provider) == provider

\* System::refresh_cpu: only the per-core values are read from the provider
RefreshCpu(sys, cpus) == [sys EXCEPT !.cpus = cpus]

RECURSIVE Pow2(_)
Pow2(k) == IF k = 0 THEN 1 ELSE 2 * Pow2(k - 1)
RECURSIVE Log2(_)
Log2(n) == IF n <= 1 THEN 0 ELSE 1 + Log2(n \div 2)

\* Long division a / b continued bit by bit until the quotient q has 24
\* significant bits: a / b = (q + r / b) / 2^k
RECURSIVE F32Extend(_, _, _, _)
F32Extend(q, r, b, k) ==
    IF q >= 8388608 THEN [q |-> q, r |-> r, k |-> k]
    ELSE F32Extend(2 * q + (IF 2 * r >= b THEN 1 ELSE 0), (2 * r) % b, b, k + 1)

\* The f32 quotient a / b of two f32 values that are integers 0 < a, b < 2^30:
\* the exact quotient rounded to a 24-bit significand m, ties to even; the
\* result is m / 2^k
F32Quotient(a, b) ==
    LET q0 == a \div b
        r0 == a % b
    IN  IF q0 >= 16777216
        THEN LET unit == F32Unit(q0, 2)
                 q == q0 \div unit
                 r == q0 % unit
                 up == r * 2 > unit \/ (r * 2 = unit /\ (r0 > 0 \/ q % 2 = 1))
             IN  [m |-> IF up THEN q + 1 ELSE q, k |-> 0 - Log2(unit)]
        ELSE LET e == F32Extend(q0, r0, b, 0)
                 up == 2 * e.r > b \/ (2 * e.r = b /\ e.q % 2 = 1)
             IN  [m |-> IF up THEN e.q + 1 ELSE e.q, k |-> e.k]

\* The reading of value m / 2^k, in lowest terms
RECURSIVE F32Value(_, _)
F32Value(m, k) ==
    IF m = 0 THEN Reading(0, 1)
    ELSE IF k > 0 /\ m % 2 = 0 THEN F32Value(m \div 2, k - 1)
    ELSE IF k < 0 /\ m < 536870912 THEN F32Value(2 * m, k + 1)
    ELSE IF k < 0 THEN [num |-> m, den |-> 1, exp |-> k]
    ELSE IF k <= 30 THEN Reading(m, Pow2(k))
    ELSE [num |-> m, den |-> Pow2(30), exp |-> k - 30]

\* a / b in f32, for integer-valued operands with a >= 0 and b >= 0
F32Div(a, b) ==
    IF b = 0 THEN Reading(a, 0)
    ELSE IF a = 0 THEN Reading(0, 1)
    ELSE LET q == F32Quotient(a, b) IN F32Value(q.m, q.k)

\* App::get_cpu_usage, after its refresh_cpu: sum of the cores / number of cores
GetCpuUsageUndivided(sys) == Reading(SumSeq(sys.cpus), 1)
GetCpuUsage(sys) == F32Div(SumSeq(sys.cpus), ToF32(Len(sys.cpus)))

\* App::get_memory_usage: (used as f32 / total as f32) * 100.0, the quotient
\* rounded to f32 and then the product rounded to f32
GetMemoryUsageFraction(sys) == F32Div(ToF32(sys.used), ToF32(sys.total))
GetMemoryUsage(sys) ==
    LET used_memory == ToF32(sys.used)
        total_memory == ToF32(sys.total)
    IN  IF total_memory = 0 THEN Reading(used_memory, 0)
        ELSE IF used_memory = 0 THEN Reading(0, 1)
        ELSE LET q == F32Quotient(used_memory, total_memory)
             IN  F32Value(ToF32(100 * q.m), q.k)

\* `reading as u16`: NaN gives 0, a negative value 0, the fraction is cut and
\* values above 65535 (infinity too) give 65535
AsU16Rounded(r) ==
    IF r.den = 0 THEN (IF r.num > 0 THEN U16Max ELSE 0)
    ELSE IF r.num < 0 THEN 0
    ELSE Min((r.num \div r.den) + (IF 2 * (r.num % r.den) >= r.den THEN 1 ELSE 0),
             U16Max)
AsU16(r) ==
    IF r.den = 0 THEN (IF r.num > 0 THEN U16Max ELSE 0)
    ELSE IF r.num < 0 THEN 0
    ELSE Min(r.num \div r.den, U16Max)

\* Gauge::percent asserts percent <= 100 and panics otherwise
GaugePanics(percent) == percent > 100

----------------------------------------------------------------------------
(* Inputs *)

\* terminal sizes (columns, rows) the backend may report
TermSizes ==
    ({80} \X (0..MaxH)) \cup ({0} \X {0, MaxH})
        \cup { <<80, 24>>, <<255, 255>>, <<1000, 1000>>, <<1, U16Max>>,
               <<U16Max, 1>>, <<U16Max, U16Max>> }

\* input events: the 'q' key, another key, an event that is no key
Events == {"q", "key", "resize"}

\* what the metrics provider may report: per-core percentages, used and total
\* memory
CpuReports == { <<>>, <<10, 20, 30, 40>>, <<25, 25, 26, 26, 26>>, <<150>> }
MemReports == { <<0, 0>>, <<53, 100>>, <<9, 8>>, <<16777217, 33554432>> }
ProviderStates ==
    { [cpus |-> c, used |-> m[1], total |-> m[2]] : c \in CpuReports, m \in MemReports }

----------------------------------------------------------------------------
(* main and run_app *)

Init ==
    /\ mpc = "enable_raw"
    /\ lpc = "idle"
    /\ rawMode = FALSE
    /\ altScreen = FALSE
    /\ result = "none"
    /\ exit = "none"
    /\ failedAt = "none"
    /\ lastEvent = "none"
    /\ area = Rect(0, 0, 0, 0)
    /\ chunks = <<>>
    /\ cpuPercent = 0
    /\ memPercent = 0
    /\ cpuReading = Reading(0, 1)
    /\ memReading = Reading(0, 1)
    /\ memReads = 0
    /\ memEpoch = 0
    /\ system = [cpus |-> <<>>, used |-> 0, total |-> 0]
    /\ draws = 0
    /\ updates = 0
    /\ sleeps = 0
    /\ disables = 0
    /\ leaves = 0

termVars == <<rawMode, altScreen, disables, leaves>>
loopVars == <<lpc, result, lastEvent, draws, updates, sleeps>>
uiVars == <<area, chunks, cpuPercent, memPercent, cpuReading, memReading,
            memReads, memEpoch>>

\* main returns Err(e) from a `?`
MainFails(step) ==
    /\ mpc' = "done"
    /\ exit' = "err"
    /\ failedAt' = step

\* enable_raw_mode()?
EnableRawMode ==
    /\ mpc = "enable_raw"
    /\ \E ok \in BOOLEAN :
        IF ok
        THEN /\ rawMode' = TRUE
             /\ mpc' = "enter_alt"
             /\ UNCHANGED <<exit, failedAt>>
        ELSE /\ MainFails("enable_raw")
             /\ UNCHANGED rawMode
    /\ UNCHANGED <<altScreen, disables, leaves, loopVars, uiVars, system>>

\* execute!(stdout, EnterAlternateScreen)?
EnterAlternateScreen ==
    /\ mpc = "enter_alt"
    /\ \E ok \in BOOLEAN :
        IF ok
        THEN /\ altScreen' = TRUE
             /\ mpc' = "new_terminal"
             /\ UNCHANGED <<exit, failedAt>>
        ELSE /\ MainFails("enter_alt")
             /\ UNCHANGED altScreen
    /\ UNCHANGED <<rawMode, disables, leaves, loopVars, uiVars, system>>

\* Terminal::new(backend)?
NewTerminal ==
    /\ mpc = "new_terminal"
    /\ \E ok \in BOOLEAN :
        IF ok
        THEN /\ mpc' = "app_new"
             /\ UNCHANGED <<exit, failedAt>>
        ELSE MainFails("new_terminal")
    /\ UNCHANGED <<termVars, loopVars, uiVars, system>>

\* App::new(), then run_app is entered
AppNew ==
    /\ mpc = "app_new"
    /\ \E p \in ProviderStates : system' = RefreshAll(system, p)
    /\ mpc' = "run_app"
    /\ lpc' = "draw"
    /\ UNCHANGED <<termVars, result, lastEvent, draws, updates, sleeps, uiVars,
                   exit, failedAt>>

\* run_app returns r to main, which goes on to restore the terminal
LoopReturns(r, step) ==
    /\ lpc' = "returned"
    /\ result' = r
    /\ failedAt' = step
    /\ mpc' = "disable_raw"
    /\ UNCHANGED exit

\* a panic in the loop unwinds through run_app and main
LoopPanics ==
    /\ lpc' = "panicked"
    /\ mpc' = "done"
    /\ exit' = "panic"
    /\ UNCHANGED <<result, failedAt>>

\* terminal.draw(|f| ui(f, app))?
\* draw asks the backend for the size (which can fail), calls ui, and flushes
\* the frame (which can fail); ui computes the layout, reads the sampler and
\* builds the gauges
Draw ==
    /\ mpc = "run_app"
    /\ lpc = "draw"
    /\ draws < MaxTicks
    /\ \/ /\ LoopReturns("err", "draw")
          /\ UNCHANGED <<uiVars, system, draws>>
       \/ \E c \in CpuReports :
          \E cpu_usage \in { GetCpuUsage(RefreshCpu(system, c)) } :
          \E memory_usage \in { GetMemoryUsage(RefreshCpu(system, c)) } :
          \E sz \in TermSizes, flushed \in BOOLEAN :
            LET a == RectNew(sz[1], sz[2])
                sys == RefreshCpu(system, c)
                cpu == AsU16(cpu_usage)
                mem == AsU16(memory_usage)
            IN  /\ area' = a
                /\ chunks' = Split(a)
                /\ system' = sys
                /\ cpuReading' = cpu_usage
                /\ cpuPercent' = cpu
                /\ memReading' = IF GaugePanics(cpu) THEN memReading ELSE memory_usage
                /\ memPercent' = IF GaugePanics(cpu) THEN memPercent ELSE mem
                /\ memReads' = IF GaugePanics(cpu) THEN memReads ELSE memReads + 1
                /\ memEpoch' = IF GaugePanics(cpu) THEN memEpoch ELSE updates
                /\ IF GaugePanics(cpu) \/ GaugePanics(mem)
                   THEN LoopPanics /\ UNCHANGED draws
                   ELSE IF ~flushed
                   THEN LoopReturns("err", "draw") /\ UNCHANGED draws
                   ELSE /\ lpc' = "read"
                        /\ draws' = draws + 1
                        /\ UNCHANGED <<mpc, result, exit, failedAt>>
    /\ UNCHANGED <<termVars, lastEvent, updates, sleeps>>

\* what run_app does with the event that event::read() returned
OnEventIgnoresQuit(ev) ==
    /\ lpc' = "update"
    /\ UNCHANGED <<mpc, result, exit, failedAt>>
OnEventAnyKeyQuits(ev) ==
    IF ev \in {"q", "key"}
    THEN LoopReturns("ok", "none")
    ELSE /\ lpc' = "update"
         /\ UNCHANGED <<mpc, result, exit, failedAt>>
OnEventSkipsUpdate(ev) ==
    IF ev = "q"
    THEN LoopReturns("ok", "none")
    ELSE /\ lpc' = "sleep"
         /\ UNCHANGED <<mpc, result, exit, failedAt>>
OnEvent(ev) ==
    IF ev = "q"
    THEN LoopReturns("ok", "none")
    ELSE /\ lpc' = "update"
         /\ UNCHANGED <<mpc, result, exit, failedAt>>

\* event::read()? returns the next event; it blocks until there is one, so
\* this step is taken only when the terminal delivers an event
ReadEvent ==
    /\ mpc = "run_app"
    /\ lpc = "read"
    /\ \E ev \in Events :
        /\ lastEvent' = ev
        /\ OnEvent(ev)
    /\ UNCHANGED <<termVars, draws, updates, sleeps, uiVars, system>>

\* event::read()? fails
ReadErrorIgnored ==
    /\ mpc = "run_app"
    /\ lpc = "read"
    /\ lpc' = "update"
    /\ failedAt' = "read"
    /\ UNCHANGED <<mpc, result, exit>>
    /\ UNCHANGED <<termVars, lastEvent, draws, updates, sleeps, uiVars, system>>
ReadError ==
    /\ mpc = "run_app"
    /\ lpc = "read"
    /\ LoopReturns("err", "read")
    /\ UNCHANGED <<termVars, lastEvent, draws, updates, sleeps, uiVars, system>>

\* app.update()
Update ==
    /\ mpc = "run_app"
    /\ lpc = "update"
    /\ \E p \in ProviderStates : system' = RefreshAll(system, p)
    /\ updates' = updates + 1
    /\ lpc' = "sleep"
    /\ UNCHANGED <<mpc, termVars, result, lastEvent, draws, sleeps, uiVars, exit,
                   failedAt>>

\* std::thread::sleep(Duration::from_millis(250)), then the next iteration
SleepSkipsDraw ==
    /\ mpc = "run_app"
    /\ lpc = "sleep"
    /\ sleeps' = sleeps + 1
    /\ lpc' = "read"
    /\ UNCHANGED <<mpc, termVars, result, lastEvent, draws, updates, uiVars, exit,
                   failedAt, system>>
Sleep ==
    /\ mpc = "run_app"
    /\ lpc = "sleep"
    /\ sleeps' = sleeps + 1
    /\ lpc' = "draw"
    /\ UNCHANGED <<mpc, termVars, result, lastEvent, draws, updates, uiVars, exit,
                   failedAt, system>>

\* disable_raw_mode()?
DisableRawMode ==
    /\ mpc = "disable_raw"
    /\ \E ok \in BOOLEAN :
        IF ok
        THEN /\ rawMode' = FALSE
             /\ disables' = disables + 1
             /\ mpc' = "leave_alt"
             /\ UNCHANGED <<exit, failedAt>>
        ELSE /\ MainFails("disable_raw")
             /\ UNCHANGED <<rawMode, disables>>
    /\ UNCHANGED <<altScreen, leaves, loopVars, uiVars, system>>

\* execute!(terminal.backend_mut(), LeaveAlternateScreen)?
LeaveAlternateScreen ==
    /\ mpc = "leave_alt"
    /\ \E ok \in BOOLEAN :
        IF ok
        THEN /\ altScreen' = FALSE
             /\ leaves' = leaves + 1
             /\ mpc' = "show_cursor"
             /\ UNCHANGED <<exit, failedAt>>
        ELSE /\ MainFails("leave_alt")
             /\ UNCHANGED <<altScreen, leaves>>
    /\ UNCHANGED <<rawMode, disables, loopVars, uiVars, system>>

\* result.map_err(|e| e.into()): main returns what run_app returned
MainResultOk(r) == "ok"
MainResult(r) == r

\* terminal.show_cursor()?  and then  result.map_err(|e| e.into())
ShowCursor ==
    /\ mpc = "show_cursor"
    /\ \E ok \in BOOLEAN :
        IF ok
        THEN /\ mpc' = "done"
             /\ exit' = MainResult(result)
             /\ UNCHANGED failedAt
        ELSE MainFails("show_cursor")
    /\ UNCHANGED <<termVars, loopVars, uiVars, system>>

Next ==
    \/ EnableRawMode
    \/ EnterAlternateScreen
    \/ NewTerminal
    \/ AppNew
    \/ Draw
    \/ ReadEvent
    \/ ReadError
    \/ Update
    \/ Sleep
    \/ DisableRawMode
    \/ LeaveAlternateScreen
    \/ ShowCursor

Spec == Init /\ [][Next]_vars

\* The program's own steps are taken when they can be; whether event::read
\* returns depends on the terminal delivering an event or an error
ProgramStep ==
    \/ EnableRawMode
    \/ EnterAlternateScreen
    \/ NewTerminal
    \/ AppNew
    \/ Draw
    \/ Update
    \/ Sleep
    \/ DisableRawMode
    \/ LeaveAlternateScreen
    \/ ShowCursor

FairSpec == Spec /\ WF_vars(ProgramStep)

----------------------------------------------------------------------------
(* The sampler used as a library: a client (tests/integration_test.rs) that  *)
(* has constructed an App calls its methods in any order.                    *)

libVars == <<mpc, termVars, loopVars, exit, failedAt, area, chunks, cpuPercent,
             memPercent>>

\* let mut app = App::new();
AppInit ==
    /\ mpc = "enable_raw"
    /\ lpc = "idle"
    /\ rawMode = FALSE
    /\ altScreen = FALSE
    /\ result = "none"
    /\ exit = "none"
    /\ failedAt = "none"
    /\ lastEvent = "none"
    /\ area = Rect(0, 0, 0, 0)
    /\ chunks = <<>>
    /\ cpuPercent = 0
    /\ memPercent = 0
    /\ cpuReading = Reading(0, 1)
    /\ memReading = Reading(0, 1)
    /\ memReads = 0
    /\ memEpoch = 0
    /\ system \in { RefreshAll([cpus |-> <<>>, used |-> 0, total |-> 0], p) :
                       p \in ProviderStates }
    /\ draws = 0
    /\ updates = 0
    /\ sleeps = 0
    /\ disables = 0
    /\ leaves = 0

\* app.update()
AppUpdate ==
    /\ updates < MaxTicks
    /\ \E p \in ProviderStates : system' = RefreshAll(system, p)
    /\ updates' = updates + 1
    /\ UNCHANGED <<mpc, termVars, lpc, result, lastEvent, draws, sleeps, exit,
                   failedAt, uiVars>>

\* app.get_cpu_usage()
AppGetCpuUsage ==
    /\ \E c \in CpuReports :
        /\ system' = RefreshCpu(system, c)
        /\ cpuReading' = GetCpuUsage(system')
    /\ UNCHANGED <<libVars, memReading, memReads, memEpoch>>

\* app.get_memory_usage()
AppGetMemoryUsageRefreshes ==
    /\ memReads < MaxReads
    /\ \E p \in ProviderStates :
        system' = [system EXCEPT !.used = p.used, !.total = p.total]
    /\ memReading' = GetMemoryUsage(system')
    /\ memReads' = memReads + 1
    /\ memEpoch' = updates
    /\ UNCHANGED <<libVars, cpuReading>>
AppGetMemoryUsage ==
    /\ memReads < MaxReads
    /\ memReading' = GetMemoryUsage(system)
    /\ memReads' = memReads + 1
    /\ memEpoch' = updates
    /\ UNCHANGED <<libVars, cpuReading, system>>

AppNext ==
    \/ AppUpdate
    \/ AppGetCpuUsage
    \/ AppGetMemoryUsage

AppSpec == AppInit /\ [][AppNext]_vars

----------------------------------------------------------------------------
(* Properties *)

LayoutComputed == chunks # <<>>
LoopEnded == lpc = "returned"

\* C1: once the terminal is acquired and the render loop has returned (Ok after
\* 'q', a draw error, a read error), main ends with the terminal released
\* exactly once: raw mode disabled once and the alternate screen left once.
C1_ReleasedExactlyOnce ==
    (mpc = "done" /\ LoopEnded)
        => (disables = 1 /\ leaves = 1 /\ ~rawMode /\ ~altScreen)

\* C2: whenever main reports an error, raw mode is off and the alternate
\* screen is inactive: the terminal was restored before the error is reported.
C2_RestoredBeforeError ==
    (mpc = "done" /\ exit = "err") => (~rawMode /\ ~altScreen)

\* C3: when the event read is the 'q' key the loop returns Ok at once, and once
\* the loop has returned nothing of it happens again: no draw, no layout or
\* gauge computation, no sampler refresh, no pause, and it stays returned.
C3_QuitStopsLoop ==
    /\ [][(lpc = "read" /\ lpc' # "read" /\ failedAt' # "read" /\ lastEvent' = "q")
            => (lpc' = "returned" /\ result' = "ok"
                /\ UNCHANGED <<draws, updates, sleeps, uiVars, system>>)]_vars
    /\ [][LoopEnded
            => (lpc' = "returned"
                /\ UNCHANGED <<draws, updates, sleeps, uiVars, system, result,
                               lastEvent>>)]_vars
C3_Witness ==
    /\ mpc = "done"
    /\ result = "ok"
    /\ lastEvent = "q"
    /\ draws = 1

\* C4: an event that is not the 'q' key leaves the loop running and on its
\* way to the next tick, whose draw then takes place; the loop returns Ok only
\* after a 'q'.
C4_NonQuitIgnored ==
    /\ [][(lpc = "read" /\ lpc' # "read" /\ failedAt' # "read" /\ lastEvent' # "q")
            => (lpc' = "update" /\ result' = "none" /\ mpc' = "run_app")]_vars
    /\ [](result = "ok" => lastEvent = "q")
    /\ [][(lpc = "update" => lpc' = "sleep") /\ (lpc = "sleep" => lpc' = "draw")]_vars
    /\ ((lpc = "update" /\ draws < MaxTicks) ~> (lpc \in {"read", "returned", "panicked"}))
C4_Witness ==
    /\ lastEvent \in {"key", "resize"}
    /\ lpc = "read"
    /\ draws = 2
    /\ updates = 1

\* C5: the wait for an event is bounded: while the loop waits in event::read
\* it eventually leaves the wait, whether or not an event arrives.
C5_WaitIsBounded == (lpc = "read") ~> (lpc # "read")

Heights(cs) == cs[1].height + cs[2].height + cs[3].height

\* C6: the layout has exactly three regions and their heights add up to the
\* height of the screen rectangle.
C6_HeightsFillArea ==
    LayoutComputed => (Len(chunks) = 3 /\ Heights(chunks) = area.height)
C6_Witness ==
    /\ LayoutComputed
    /\ area.height = 5
    /\ chunks[2].height = 2
    /\ chunks[3].height = 1

\* C7: with R the height left below the title, the CPU gauge has height
\* ceil(R/2) and the memory gauge R - ceil(R/2), so they differ by at most 1.
C7_GaugesSplitEvenly ==
    LayoutComputed =>
        LET R == area.height - chunks[1].height
        IN  /\ chunks[2].height = (R + 1) \div 2
            /\ chunks[3].height = R - ((R + 1) \div 2)
            /\ chunks[2].height - chunks[3].height \in {0, 1}

\* C8: the title region starts at y = 0 with height min(2, H); for H < 2 both
\* gauge regions have height 0 and the full width.
C8_TitleClamped ==
    LayoutComputed =>
        /\ chunks[1].y = 0
        /\ chunks[1].height = (IF area.height < 2 THEN area.height ELSE 2)
        /\ area.height < 2 =>
            /\ chunks[2].height = 0 /\ chunks[3].height = 0
            /\ chunks[2].width = area.width /\ chunks[3].width = area.width
C8_Witness ==
    /\ LayoutComputed
    /\ area.height = 1
    /\ area.width = 80
    /\ chunks[1].height = 1

\* C9: every region has the full width of the screen rectangle and each region
\* starts where the one above it ends.
C9_FullWidthContiguous ==
    LayoutComputed =>
        /\ \A i \in 1..3 : chunks[i].width = area.width /\ chunks[i].x = area.x
        /\ \A i \in 1..2 : chunks[i + 1].y = chunks[i].y + chunks[i].height
        /\ chunks[1].y <= chunks[2].y /\ chunks[2].y <= chunks[3].y
C9_Witness ==
    /\ LayoutComputed
    /\ area.width = 80
    /\ area.height = 5
    /\ chunks[3].y = 4

\* C10: no region's y, height or y + height leaves 0..65535 or wraps around,
\* and for H >= 4 both gauges have non-zero height with title.y < cpu.y <
\* memory.y.
C10_NoOverflowNonZeroGauges ==
    LayoutComputed =>
        /\ \A i \in 1..3 :
            /\ chunks[i].y \in 0..U16Max
            /\ chunks[i].height \in 0..U16Max
            /\ chunks[i].y + chunks[i].height \in 0..U16Max
        /\ chunks[3].y <= Bottom(area)
        /\ area.height >= 4 =>
            /\ chunks[2].height > 0 /\ chunks[3].height > 0
            /\ chunks[1].y < chunks[2].y /\ chunks[2].y < chunks[3].y

----------------------------------------------------------------------------
(* Properties of the sampler and the gauges *)

\* ui got as far as reading the memory usage (the CPU gauge did not panic)
MemoryRead == LayoutComputed /\ ~GaugePanics(cpuPercent)

\* the reading is the outcome of a division by zero (NaN or infinity)
DivByZero(r) == r.den = 0

\* the reading lies in [0, 100]
InRange(r) ==
    /\ r.den > 0
    /\ r.num >= 0
    /\ \/ r.num \div r.den < 100
       \/ r.num \div r.den = 100 /\ r.num % r.den = 0

\* the reading rounded to the nearest integer, and with its fraction cut
Nearest(r) == (r.num \div r.den) + (IF 2 * (r.num % r.den) >= r.den THEN 1 ELSE 0)
Floor(r) == r.num \div r.den

\* C11: with zero cores get_cpu_usage ends in a fatal error: it never returns
\* the outcome of a division by zero, and no gauge value is made of one.
C11_ZeroCoresFatal ==
    LayoutComputed => ~DivByZero(cpuReading)

\* C12: with total memory 0 get_memory_usage ends in a fatal error: it never
\* returns the outcome of a division by zero as a reading.
C12_ZeroTotalFatal ==
    MemoryRead => ~DivByZero(memReading)

\* C13: the percent handed to each gauge is within 0..100 (a reading above 100
\* is shown as 100, one below 0 as 0) and an out-of-range reading does not end
\* the session.
C13_PercentClamped ==
    LayoutComputed =>
        /\ cpuPercent \in 0..100
        /\ memPercent \in 0..100
        /\ exit # "panic"

\* C14 as claimed: for a reading in [0, 100] the gauge's percent is the reading
\* rounded to the nearest integer.
C14_PercentRounded ==
    /\ (LayoutComputed /\ InRange(cpuReading)) => cpuPercent = Nearest(cpuReading)
    /\ (MemoryRead /\ InRange(memReading)) => memPercent = Nearest(memReading)

\* C14 as amended: for a reading in [0, 100] the gauge's percent is the reading
\* with its fraction cut off (25.6 is displayed as 25, 52.999996 as 52).
C14_PercentTruncated ==
    /\ (LayoutComputed /\ InRange(cpuReading)) => cpuPercent = Floor(cpuReading)
    /\ (MemoryRead /\ InRange(memReading)) => memPercent = Floor(memReading)
C14_Witness ==
    /\ lpc = "read"
    /\ cpuReading = Reading(13421773, 524288)
    /\ cpuPercent = 25
    /\ memReading = Reading(13893631, 262144)
    /\ memPercent = 52

\* the sum of the first n values of q, added from the last one down
RECURSIVE SumFirst(_, _)
SumFirst(q, n) == IF n = 0 THEN 0 ELSE SumFirst(q, n - 1) + q[n]

\* a quotient in lowest terms
RECURSIVE Gcd(_, _)
Gcd(a, b) == IF b = 0 THEN a ELSE Gcd(b, a % b)
Lowest(r) ==
    IF r.den = 0 \/ r.num < 0 THEN r
    ELSE LET g == Gcd(r.num, r.den)
         IN  [r EXCEPT !.num = r.num \div g, !.den = r.den \div g]
SameValue(r1, r2) == Lowest(r1) = Lowest(r2)

ValidCores(cpus) ==
    /\ Len(cpus) >= 1
    /\ \A i \in 1..Len(cpus) : cpus[i] \in 0..100
ValidMemory(sys) == sys.total > 0 /\ sys.used >= 0 /\ sys.used <= sys.total

\* C15: with at least one core and every per-core value in [0, 100], the CPU
\* reading of a frame is the sum of the per-core values of that read divided
\* by their number (the f32 quotient: the mean itself where it is a whole
\* number, and with the same integer part otherwise), and lies in [0, 100];
\* for the first frame and for every frame after an update.
C15_CpuIsMean ==
    (lpc = "read" /\ ValidCores(system.cpus)) =>
        LET n == Len(system.cpus)
            sum == SumFirst(system.cpus, n)
        IN  /\ cpuReading = F32Div(sum, n)
            /\ Floor(cpuReading) = sum \div n
            /\ sum % n = 0 => cpuReading = Reading(sum \div n, 1)
            /\ InRange(cpuReading)
C15_Witness ==
    /\ lpc = "read"
    /\ updates = 1
    /\ draws = 2
    /\ system.cpus = <<10, 20, 30, 40>>
    /\ SameValue(cpuReading, Reading(25, 1))
    /\ cpuPercent = 25

\* C16 as claimed: with total > 0 and 0 <= used <= total the memory reading is
\* exactly 100 * used / total, and lies in [0, 100].
C16_MemoryExact ==
    (lpc = "read" /\ ValidMemory(system)) =>
        /\ SameValue(memReading, Reading(100 * system.used, system.total))
        /\ InRange(memReading)

\* C16 as amended: with total > 0 and 0 <= used <= total the memory reading is
\* (f32(used) / f32(total)) * 100 as single precision computes it: the byte
\* counts, the quotient and the product are each rounded to 24 significant
\* bits. It lies in [0, 100], and its integer part is within one of that of
\* 100 * used / total (53 of 100 reads 52.999996).
C16_MemoryOfF32 ==
    (lpc = "read" /\ ValidMemory(system)) =>
        /\ \/ system.used = 0 /\ memReading = Reading(0, 1)
           \/ /\ system.used > 0
              /\ LET q == F32Quotient(ToF32(system.used), ToF32(system.total))
                 IN  memReading = F32Value(ToF32(100 * q.m), q.k)
        /\ InRange(memReading)
        /\ (system.used < 16777216 /\ system.total < 16777216) =>
            LET exact == (100 * system.used) \div system.total
            IN  Floor(memReading) \in {exact - 1, exact, exact + 1}
C16_Witness ==
    /\ lpc = "read"
    /\ updates = 1
    /\ system.used = 53
    /\ system.total = 100
    /\ memReading = Reading(13893631, 262144)
    /\ memPercent = 52

----------------------------------------------------------------------------
(* Properties of main's result and of the order of the loop's steps *)

\* C17: main succeeds exactly when the loop ended by 'q' and no step failed:
\* success implies a 'q' quit with both teardown steps done, and a failed
\* setup step, draw, event read or teardown step gives an error; an error of
\* the loop is never turned into success.
C17_ExitCode ==
    (mpc = "done" /\ exit # "panic") =>
        /\ exit = "ok" <=> (result = "ok" /\ failedAt = "none")
        /\ exit = "ok" => (lastEvent = "q" /\ disables = 1 /\ leaves = 1)
        /\ result = "err" => exit = "err"
        /\ failedAt # "none" => exit = "err"
C17_Witness ==
    /\ mpc = "done"
    /\ result = "err"
    /\ failedAt = "read"
    /\ disables = 1
    /\ leaves = 1
    /\ exit = "err"

\* C18: a failed draw or event read is not retried: the failing step makes
\* run_app return the error at once, and after that the loop draws nothing,
\* reads no event, refreshes nothing and does not pause.
C18_NoRetry ==
    /\ [][(lpc \in {"draw", "read"} /\ failedAt' \in {"draw", "read"})
            => (lpc' = "returned" /\ result' = "err" /\ mpc' = "disable_raw"
                /\ UNCHANGED <<draws, updates, sleeps, lastEvent>>)]_vars
    /\ [][(LoopEnded /\ result = "err")
            => (lpc' = "returned" /\ result' = "err"
                /\ UNCHANGED <<draws, updates, sleeps, uiVars, system, lastEvent>>)]_vars
C18_Witness ==
    /\ mpc = "done"
    /\ result = "err"
    /\ failedAt = "draw"
    /\ draws = 1
    /\ updates = 1
    /\ sleeps = 1

\* C19: exactly one full refresh (App::update) lies between two consecutive
\* draws: when frame n is drawn, n - 1 updates have been made, each after the
\* frame before; and the readings of the frame are those of the sampler as
\* refreshed for it.
C19_RefreshedEveryTick ==
    /\ lpc \in {"read", "update"} => updates = draws - 1
    /\ lpc \in {"sleep", "draw"} => updates = draws
    /\ lpc = "read" =>
        /\ cpuReading = GetCpuUsage(system)
        /\ memReading = GetMemoryUsage(system)
C19_Witness ==
    /\ lpc = "read"
    /\ draws = 2
    /\ updates = 1
    /\ memReading = Reading(13893631, 262144)

\* C20: within a tick the steps come in order: layout and readings, draw, wait
\* for input, (update,) pause. The wait is entered only from a completed draw of
\* a computed layout, the pause only after a non-quit event, and the pause is
\* followed by the next tick's draw.
C20_TickOrder ==
    /\ [][(lpc' = "read" /\ lpc # "read")
            => (lpc = "draw" /\ draws' = draws + 1 /\ chunks' # <<>>
                /\ cpuPercent' = AsU16(cpuReading') /\ memPercent' = AsU16(memReading'))]_vars
    /\ [][(lpc' = "update" /\ lpc # "update") => lpc = "read"]_vars
    /\ [][(lpc' = "sleep" /\ lpc # "sleep")
            => (lpc = "update" /\ lastEvent \in {"key", "resize"})]_vars
    /\ [][sleeps' # sleeps
            => (lpc = "sleep" /\ lastEvent # "q" /\ sleeps' = sleeps + 1
                /\ lpc' = "draw")]_vars
    /\ [](lpc = "read" => (LayoutComputed /\ draws = sleeps + 1))
    /\ [](lpc = "panicked" => LayoutComputed)
C20_Witness ==
    /\ lpc = "draw"
    /\ draws = 1
    /\ updates = 1
    /\ sleeps = 1
    /\ lastEvent = "key"
    /\ LayoutComputed

\* C21: App::get_memory_usage leaves the sampler as it is and returns the
\* memory usage of the values of the last full refresh: a call that follows
\* another with no App::update between them returns the same value, and the
\* sampler's memory values change only in App::update (or App::new). (In ui
\* the call comes in one step with get_cpu_usage, which refreshes the cores.)
C21_MemoryReadIsPure ==
    /\ [][memReads' = memReads + 1
            => (/\ system'.used = system.used /\ system'.total = system.total
                /\ lpc # "draw" => system' = system
                /\ memReading' = GetMemoryUsage(system)
                /\ (memReads > 0 /\ memEpoch = updates) => memReading' = memReading)]_vars
    /\ [][(system'.used # system.used \/ system'.total # system.total)
            => (updates' = updates + 1 \/ mpc = "app_new")]_vars
    /\ [][memReading' # memReading
            => (memReads' = memReads + 1 /\ (memReads = 0 \/ memEpoch # updates))]_vars
C21_Witness ==
    /\ memReads = 2
    /\ updates = 1
    /\ memEpoch = 1
    /\ system.used = 53
    /\ system.total = 100
    /\ system.cpus = <<10, 20, 30, 40>>
    /\ cpuReading = Reading(25, 1)
    /\ memReading = Reading(13893631, 262144)

====
